---- MODULE Spec2Model ----
(***************************************************************************)
(* A model of stress.py: the command line entry point _cmd_line, the       *)
(* worker supervisor stress_processes and the disk writer stress_io, each  *)
(* an operating-system process of its own, plus the workers (_spin) as     *)
(* the supervisor sees them: alive or dead.                                *)
(*                                                                         *)
(* Sizes are in bytes, as in the code.  Python's None is the value None.   *)
(***************************************************************************)
EXTENDS Integers, FiniteSets, Sequences, TLC

(***************************************************************************)
(* Bounds of the model.                                                    *)
(***************************************************************************)
\* multiprocessing.cpu_count() of the host
CpuCount == 2
\* psutil.virtual_memory().total / 1024 / 1024 of the host
HostMemMB == 8
\* the largest -c value tried
MaxCores == 3
\* the largest -m value tried
MaxMemoryMB == 4
\* the largest -w value tried
MaxWriteMB == 3
\* the largest --max value tried
MaxFileMB == 4
\* free space of the temp file system, in MB: a write beyond it fails
DiskMB == 7
\* successful writes of one run of stress_io that are followed
MaxTicks == 6
\* worker deaths (kill, OOM) that are followed
MaxDeaths == 3
\* the -m value of the runs whose workers' loops are followed
SpinMemoryMB == 24
\* memory, in MB, the workers' filler can take: an append beyond it fails
FreeMemMB == 10
\* the same on the host of the runs with two workers
PairMemMB == 3

(***************************************************************************)
(* Values.                                                                 *)
(***************************************************************************)
\* Python's None: no natural number
None == 0 - 1

MiB == 1024 * 1024

Max2(a, b) == IF a >= b THEN a ELSE b

\* bool(x) of an integer or None
Truthy(x) == x # None /\ x # 0

\* "int(a) if a else None" of an argparse value: a is None (flag absent) or
\* the number a non-empty string spells; a non-empty string is true, "0" too
IntIfGiven(a) == IF a # None THEN a ELSE None

\* int(a / b) for a >= 0, b > 0
IntDiv(a, b) == a \div b

\* the processes that are not workers
Procs == {"cmd", "sup", "io"}

\* the multiprocessing start methods a platform defaults to
StartMethods == {"fork", "spawn"}

VARIABLES
  argv,                \* the command line: [cores, memory, write, max]
  start_method,
  free_mb,             \* the memory, in MB, the host has for the workers' filler
        \* how multiprocessing starts a child on this platform
  \* _cmd_line
  cmd_pc,
  cores_to_stress, memory_to_allocate, io_to_stress, max_file_size,
  memory_per_core,
  \* stress_processes
  sup_pc,
  num_processes, ram_per_core_mb,
  i,                   \* the startup loop's index
  children,            \* len(children) of the latest poll
  live,                \* pids of the supervisor's live child processes
  ram,                 \* the ram_per_core_mb each live worker was started with
  nextpid,             \* the pid the next p.start() gets
  \* _spin, one record for each live worker
  alloc,               \* [ram_per_step_mb, dummy]
  rss,                 \* what me.memory_info().rss told the latest iteration
  crashed,             \* pids of the workers an uncaught exception ended
  \* stress_io
  io_pc,
  write_mb_per_second, max_file_size_mb,
  write_bytes, max_bytes, bytes_written,
  tf_open,             \* the scratch file exists and its handle is open
  tf_pos,              \* the handle's write cursor
  tf_size,             \* the scratch file's size
  \* every process
  interrupted,         \* SIGINT was delivered
  exitcode,            \* None while the process has not ended
  exc,                 \* the exception that ended it, "" when none
  \* observation of the run, read by the properties only
  deaths,              \* worker deaths so far
  dead_k,              \* workers missing right after the latest death
  polls,               \* polls begun and finished since, counted up to dead_k
  fresh                \* the poll in progress began after the latest death

cmd_vars == <<cmd_pc, cores_to_stress, memory_to_allocate, io_to_stress,
              max_file_size, memory_per_core>>
sup_vars == <<sup_pc, num_processes, ram_per_core_mb, i, children, nextpid>>
wrk_vars == <<live, ram, alloc, rss, crashed>>
io_vars == <<io_pc, write_mb_per_second, max_file_size_mb, write_bytes,
             max_bytes, bytes_written, tf_open, tf_pos, tf_size>>
prc_vars == <<interrupted, exitcode, exc>>
obs_vars == <<deaths, dead_k, polls, fresh>>
env_vars == <<argv, start_method, free_mb>>
vars == <<env_vars, cmd_vars, sup_vars, wrk_vars, io_vars, prc_vars, obs_vars>>

(***************************************************************************)
(* Command lines.                                                          *)
(***************************************************************************)
ArgCores == {None} \cup 0..MaxCores
ArgMemory == {None, MaxMemoryMB}
ArgWrite == {None} \cup 0..MaxWriteMB
ArgMax == {None} \cup 0..MaxFileMB

InitWith(cs, ms, ws, xs) ==
  /\ argv \in [cores : cs, memory : ms, write : ws, max : xs]
  /\ start_method \in StartMethods
  /\ cmd_pc = "parse"
  /\ cores_to_stress = None /\ memory_to_allocate = None
  /\ io_to_stress = None /\ max_file_size = None /\ memory_per_core = None
  /\ sup_pc = "none"
  /\ num_processes = None /\ ram_per_core_mb = None
  /\ i = 0 /\ children = 0 /\ live = {} /\ ram = <<>> /\ nextpid = 1
  /\ alloc = <<>> /\ rss = None /\ crashed = {}
  /\ io_pc = "none"
  /\ write_mb_per_second = None /\ max_file_size_mb = None
  /\ write_bytes = None /\ max_bytes = None /\ bytes_written = 0
  /\ tf_open = FALSE /\ tf_pos = 0 /\ tf_size = 0
  /\ interrupted = [p \in Procs |-> FALSE]
  /\ exitcode = [p \in Procs |-> None]
  /\ exc = [p \in Procs |-> ""]
  /\ deaths = 0 /\ dead_k = 0 /\ polls = 0 /\ fresh = TRUE

\* the CPU/RAM family: no -w
Init == InitWith(ArgCores, ArgMemory, {None}, {None}) /\ free_mb = FreeMemMB

\* the disk family: -w and --max vary
InitIO == InitWith({None}, {None}, ArgWrite, ArgMax) /\ free_mb = FreeMemMB

\* the CPU/RAM family with the loop of one worker: a target of Steps
\* megabytes, which a step of 1 MB takes, and a larger one
InitSpin ==
  InitWith({1}, {None, SpinMemoryMB}, {None}, {None}) /\ free_mb = FreeMemMB

\* both families at once: two workers, and a writer that wraps, one that
\* has no maximum size and one that does not get past line 105
InitAll == InitWith({2}, {None}, {2}, {None, 0, 2}) /\ free_mb = FreeMemMB

\* the same with two workers side by side on a smaller host
InitPair == InitWith({2}, {SpinMemoryMB}, {None}, {None}) /\ free_mb = PairMemMB

(***************************************************************************)
(* _cmd_line                                                               *)
(***************************************************************************)
\* lines 133-137
CmdParse ==
  /\ cmd_pc = "parse"
  /\ cores_to_stress' = IntIfGiven(argv.cores)
  /\ memory_to_allocate' = IntIfGiven(argv.memory)
  /\ io_to_stress' = IntIfGiven(argv.write)
  /\ max_file_size' = IntIfGiven(argv.max)
  /\ cmd_pc' = "signal"
  /\ UNCHANGED <<memory_per_core, env_vars, sup_vars, wrk_vars, io_vars,
                 prc_vars, obs_vars>>

\* line 140: from here on SIGINT runs sys.exit(1)
CmdSignal ==
  /\ cmd_pc = "signal"
  /\ cmd_pc' = "defaults"
  /\ UNCHANGED <<cores_to_stress, memory_to_allocate, io_to_stress,
                 max_file_size, memory_per_core, env_vars, sup_vars, wrk_vars,
                 io_vars, prc_vars, obs_vars>>

DefaultCores(c) == IF ~Truthy(c) THEN CpuCount ELSE c

DefaultMemory(m) == IF ~Truthy(m) THEN HostMemMB ELSE m

\* lines 142-147
CmdDefaults ==
  /\ cmd_pc = "defaults"
  /\ cores_to_stress' = DefaultCores(cores_to_stress)
  /\ memory_to_allocate' = DefaultMemory(memory_to_allocate)
  /\ memory_per_core' = IntDiv(memory_to_allocate', cores_to_stress')
  /\ cmd_pc' = "cpu"
  /\ UNCHANGED <<io_to_stress, max_file_size, env_vars, sup_vars, wrk_vars,
                 io_vars, prc_vars, obs_vars>>

\* lines 149-153
CmdCpu ==
  /\ cmd_pc = "cpu"
  /\ IF Truthy(cores_to_stress)
       THEN /\ sup_pc' = "spawn"
            /\ num_processes' = cores_to_stress
            /\ ram_per_core_mb' = memory_per_core
       ELSE UNCHANGED <<sup_pc, num_processes, ram_per_core_mb>>
  /\ cmd_pc' = "io"
  /\ UNCHANGED <<cores_to_stress, memory_to_allocate, io_to_stress,
                 max_file_size, memory_per_core, i, children, nextpid,
                 env_vars, wrk_vars, io_vars, prc_vars, obs_vars>>

\* lines 155-158
CmdIo ==
  /\ cmd_pc = "io"
  /\ IF Truthy(io_to_stress)
       THEN /\ io_pc' = "open"
            /\ write_mb_per_second' = io_to_stress
            /\ max_file_size_mb' = max_file_size
       ELSE UNCHANGED <<io_pc, write_mb_per_second, max_file_size_mb>>
  /\ cmd_pc' = "join"
  /\ UNCHANGED <<cores_to_stress, memory_to_allocate, io_to_stress,
                 max_file_size, memory_per_core, write_bytes, max_bytes,
                 bytes_written, tf_open, tf_pos, tf_size, env_vars, sup_vars,
                 wrk_vars, prc_vars, obs_vars>>

Ended(pc) == pc \in {"none", "exit"}

\* line 162 returns; the interpreter joins the children it started, and
\* ends with status 0 once they have all ended
CmdJoin ==
  /\ cmd_pc = "join"
  /\ Ended(sup_pc) /\ Ended(io_pc)
  /\ cmd_pc' = "exit"
  /\ exitcode' = [exitcode EXCEPT !["cmd"] = 0]
  /\ UNCHANGED <<cores_to_stress, memory_to_allocate, io_to_stress,
                 max_file_size, memory_per_core, interrupted, exc, env_vars,
                 sup_vars, wrk_vars, io_vars, obs_vars>>

(***************************************************************************)
(* stress_processes                                                        *)
(***************************************************************************)
\* line 24
Steps == 8

\* line 25: ram_per_step_mb = int(ram_per_core_mb / steps)
StepMB(mb) == IntDiv(mb, Steps)

\* FreshAlloc that takes over what a live worker holds
FreshAllocInherited(mb) ==
  IF live = {}
    THEN [ram_per_step_mb |-> StepMB(mb), dummy |-> 1]
    ELSE alloc[CHOOSE p \in live : \A q \in live : p <= q]

\* lines 22-27: the state _spin(mb) enters its loop with. dummy is the length
\* of the list
FreshAlloc(mb) == [ram_per_step_mb |-> StepMB(mb), dummy |-> 1]

\* p = multiprocessing.Process(target=_spin, args=(ram_per_core_mb,));
\* p.start(), k times over: k new live children, each with the target mb
StartWorkers(k, mb) ==
  /\ live' = live \cup (nextpid .. (nextpid + k - 1))
  /\ ram' = [p \in live' |-> IF p \in live THEN ram[p] ELSE mb]
  /\ alloc' = [p \in live' |-> IF p \in live THEN alloc[p] ELSE FreshAlloc(mb)]
  /\ nextpid' = nextpid + k
  /\ UNCHANGED <<rss, crashed>>

\* MoreToStart with "<=" for "<": one iteration too many
MoreToStartInclusive(k, n) == k <= n

\* line 76: "for i in range(num_processes)" has an iteration of index k
MoreToStart(k, n) == k < n

\* lines 76-79: one iteration of the startup loop, up to its sleep
SupSpawn ==
  /\ sup_pc = "spawn"
  /\ MoreToStart(i, num_processes)
  /\ StartWorkers(1, ram_per_core_mb)
  /\ sup_pc' = "pause"
  /\ UNCHANGED <<num_processes, ram_per_core_mb, i, children, env_vars,
                 cmd_vars, io_vars, prc_vars, obs_vars>>

\* line 80, and the loop's next index: after the last pause the polling starts
SupPause ==
  /\ sup_pc = "pause"
  /\ i' = i + 1
  /\ sup_pc' = IF MoreToStart(i', num_processes) THEN "spawn" ELSE "poll"
  /\ UNCHANGED <<num_processes, ram_per_core_mb, children, nextpid, env_vars,
                 cmd_vars, wrk_vars, io_vars, prc_vars, obs_vars>>

\* ActiveChildren counting every process the entry point started
ActiveChildrenAll == Cardinality(live) + (IF io_pc \in {"none", "exit"} THEN 0 ELSE 1)

\* line 85: multiprocessing.active_children() in the supervisor is the list
\* of the live processes the supervisor itself started. The writer is a
\* child of the entry point (line 157) and is not in it
ActiveChildren == Cardinality(live)

\* line 85: children = multiprocessing.active_children()
SupPoll ==
  /\ sup_pc = "poll"
  /\ children' = ActiveChildren
  /\ sup_pc' = "check"
  /\ fresh' = TRUE
  /\ UNCHANGED <<num_processes, ram_per_core_mb, i, nextpid, deaths, dead_k,
                 polls, env_vars, cmd_vars, wrk_vars, io_vars, prc_vars>>

\* NewWorkers without the respawn
NewWorkersNever(c, n) == 0

\* NewWorkers with "<=" for "<"
NewWorkersAtFull(c, n) == IF c <= n THEN 1 ELSE 0

\* NewWorkers closing every gap at once
NewWorkersAllGaps(c, n) == IF c < n THEN n - c ELSE 0

\* NewWorkers tolerating one missing worker
NewWorkersButOne(c, n) == IF c < n - 1 THEN 1 ELSE 0

\* lines 86-88: how many processes a poll that saw c of n children starts
NewWorkers(c, n) == IF c < n THEN 1 ELSE 0

\* lines 86-89
SupCheck ==
  /\ sup_pc = "check"
  /\ StartWorkers(NewWorkers(children, num_processes), ram_per_core_mb)
  /\ sup_pc' = "sleep"
  /\ polls' = IF fresh /\ polls < dead_k THEN polls + 1 ELSE polls
  /\ UNCHANGED <<num_processes, ram_per_core_mb, i, children, deaths, dead_k,
                 fresh, env_vars, cmd_vars, io_vars, prc_vars>>

\* line 92
SupSleep ==
  /\ sup_pc = "sleep"
  /\ sup_pc' = "poll"
  /\ UNCHANGED <<num_processes, ram_per_core_mb, i, children, nextpid,
                 env_vars, cmd_vars, wrk_vars, io_vars, prc_vars, obs_vars>>

\* startup is over: the supervisor is in its polling loop (lines 84-92)
Steady == sup_pc \in {"poll", "check", "sleep"}

\* the workers the supervisor has been asked for so far
Wanted ==
  CASE sup_pc = "spawn" -> i
    [] sup_pc = "pause" -> i + 1
    [] OTHER -> num_processes

\* worker w is gone: the supervisor's other children keep what they have
Reap(w) ==
  /\ live' = live \ {w}
  /\ ram' = [p \in live' |-> ram[p]]
  /\ alloc' = [p \in live' |-> alloc[p]]

\* a worker ends: killed by the operating system (OOM) or by the operator.
\* _spin never returns (lines 28-42)
Kill(w) ==
  /\ w \in live
  /\ deaths < MaxDeaths
  /\ Reap(w)
  /\ UNCHANGED <<rss, crashed>>
  /\ deaths' = deaths + 1
  /\ dead_k' = Wanted - Cardinality(live')
  /\ polls' = 0
  /\ fresh' = FALSE
  /\ UNCHANGED <<env_vars, cmd_vars, sup_vars, io_vars, prc_vars>>

KillWorker == \E w \in live : Kill(w)

\* an interrupted supervisor ends once the children it started have ended:
\* multiprocessing joins them before a process exits
SupJoin ==
  /\ sup_pc = "join"
  /\ live = {}
  /\ sup_pc' = "exit"
  /\ exitcode' = [exitcode EXCEPT !["sup"] = 1]
  /\ UNCHANGED <<num_processes, ram_per_core_mb, i, children, nextpid,
                 interrupted, exc, env_vars, cmd_vars, wrk_vars, io_vars,
                 obs_vars>>

(***************************************************************************)
(* _spin                                                                   *)
(***************************************************************************)
\* line 33: sys.getsizeof(num) of a float
FloatSize == 24

\* line 33: int(ram_per_step_mb / sys.getsizeof(num) * 1024 * 1024)
Elems(step) == (step * MiB) \div FloatSize

\* Shrink by a half
ShrinkHalf(step) == step \div 2

\* line 38: int(ram_per_step_mb * 0.8)
Shrink(step) == (step * 8) \div 10

\* Extend as "dummy = [num] * k"
ExtendReplace(n, k) == k

\* line 33: the length of dummy after "dummy += [num] * k"
Extend(n, k) == n + k

\* the filler bytes, by the accounting of line 33, of a list of length n
\* that began as list([1.0]) (line 27)
Filler(n) == (n - 1) * FloatSize

\* line 30: ram_per_core_mb * 1024 * 1024
TargetBytes(mb) == mb * MiB

\* BelowTarget with "<=" for "<"
BelowTargetInclusive(r, mb) == r <= TargetBytes(mb)

\* line 30: me.memory_info().rss < ram_per_core_mb * 1024 * 1024
BelowTarget(r, mb) == r < TargetBytes(mb)

\* me.memory_info().rss is the operating system's to tell: filler that is
\* paged out does not count. Followed are the filler of a list of length n
\* all resident, and values on both sides of the test of line 30
RssSamples(mb, n) == {Filler(n), TargetBytes(mb) - 1, TargetBytes(mb)}

RECURSIVE SumFiller(_)
\* the filler of the workers in S
SumFiller(S) ==
  IF S = {} THEN 0
  ELSE LET p == CHOOSE q \in S : TRUE
       IN Filler(alloc[p].dummy) + SumFiller(S \ {p})

\* the memory there is has room for k more elements of filler
HasRoom(k) == SumFiller(live) + k * FloatSize <= free_mb * MiB

\* one iteration of the loop of worker w (lines 29-42) that was told r by
\* line 30 and leaves w with b, the other workers untouched
SpinStep(w, r, b) ==
  /\ rss' = r
  /\ alloc' = [alloc EXCEPT ![w] = b]
  /\ UNCHANGED <<live, ram, crashed, env_vars, cmd_vars, sup_vars, io_vars,
                 prc_vars, obs_vars>>

\* rss at or above the target: nothing is appended (line 30), every element
\* is replaced by a new float (lines 41-42)
SpinSkip(w) ==
  \E r \in RssSamples(ram[w], alloc[w].dummy) :
    /\ ~BelowTarget(r, ram[w])
    /\ SpinStep(w, r, alloc[w])

\* rss below the target and the append of line 33 succeeding, then the pass
\* of lines 41-42, which keeps the length
SpinAppend(w) ==
  /\ HasRoom(Elems(alloc[w].ram_per_step_mb))
  /\ \E r \in RssSamples(ram[w], alloc[w].dummy) :
       /\ BelowTarget(r, ram[w])
       /\ SpinStep(w, r, [alloc[w] EXCEPT
            !.dummy = Extend(@, Elems(alloc[w].ram_per_step_mb))])

\* rss below the target and line 33 raising MemoryError (lines 35-38), then
\* the pass of lines 41-42. An append of no element allocates nothing and
\* cannot fail
SpinAppendFail(w) ==
  /\ Elems(alloc[w].ram_per_step_mb) > 0
  /\ \E r \in RssSamples(ram[w], alloc[w].dummy) :
       /\ BelowTarget(r, ram[w])
       /\ SpinStep(w, r, [alloc[w] EXCEPT !.ram_per_step_mb = Shrink(@)])

\* rss below the target, the append of line 33 succeeding and line 42
\* raising MemoryError. The elements line 33 appended all refer to the one
\* float num: the list grew by a pointer for each, and the pass makes a float
\* of FloatSize bytes for each, outside any try. The exception ends the worker
SpinTouchFail(w) ==
  /\ Elems(alloc[w].ram_per_step_mb) > 0
  /\ \E r \in RssSamples(ram[w], alloc[w].dummy) :
       BelowTarget(r, ram[w]) /\ rss' = r
  /\ deaths < MaxDeaths
  /\ Reap(w)
  /\ crashed' = crashed \cup {w}
  /\ deaths' = deaths + 1
  /\ dead_k' = Wanted - Cardinality(live')
  /\ polls' = 0
  /\ fresh' = FALSE
  /\ UNCHANGED <<env_vars, cmd_vars, sup_vars, io_vars, prc_vars>>

WorkerSkip == \E w \in live : SpinSkip(w)

WorkerAppend == \E w \in live : SpinAppend(w)

WorkerAppendFail == \E w \in live : SpinAppendFail(w)

WorkerTouchFail == \E w \in live : SpinTouchFail(w)

(***************************************************************************)
(* stress_io                                                               *)
(***************************************************************************)
\* lines 112-123: the statements the try covers
InTry(pc) == pc \in {"seek", "write", "tick"}

\* an exception raised where stress_io stands ends the process with status 1.
\* Inside the try the finally closes the scratch file (line 123). Outside it
\* nothing in stress_io closes it: the file is closed if the interpreter
\* finalizes the abandoned object before the process ends, and is left open
\* (and on disk) if it does not
Raise(e) ==
  /\ io_pc' = "exit"
  /\ exc' = [exc EXCEPT !["io"] = e]
  /\ exitcode' = [exitcode EXCEPT !["io"] = 1]
  /\ IF InTry(io_pc) \/ ~tf_open
       THEN tf_open' = FALSE
       ELSE tf_open' \in BOOLEAN

\* line 104
IoOpen ==
  /\ io_pc = "open"
  /\ tf_open' = TRUE /\ tf_pos' = 0 /\ tf_size' = 0
  /\ io_pc' = "print"
  /\ UNCHANGED <<write_mb_per_second, max_file_size_mb, write_bytes,
                 max_bytes, bytes_written, env_vars, cmd_vars, sup_vars,
                 wrk_vars, prc_vars, obs_vars>>

\* line 105: the format "{max_file_size_mb:,}" of None raises TypeError
IoPrint ==
  /\ io_pc = "print"
  /\ IF max_file_size_mb = None
       THEN /\ Raise("TypeError")
            /\ UNCHANGED interrupted
       ELSE /\ io_pc' = "setup"
            /\ UNCHANGED <<tf_open, prc_vars>>
  /\ UNCHANGED <<write_mb_per_second, max_file_size_mb, write_bytes,
                 max_bytes, bytes_written, tf_pos, tf_size, env_vars,
                 cmd_vars, sup_vars, wrk_vars, obs_vars>>

\* lines 108-110
MaxBytes(mb) == IF Truthy(mb) THEN mb * MiB ELSE None

\* lines 107-113
IoSetup ==
  /\ io_pc = "setup"
  /\ write_bytes' = write_mb_per_second * MiB
  /\ max_bytes' = MaxBytes(max_file_size_mb)
  /\ bytes_written' = 0
  /\ io_pc' = "seek"
  /\ UNCHANGED <<write_mb_per_second, max_file_size_mb, tf_open, tf_pos,
                 tf_size, env_vars, cmd_vars, sup_vars, wrk_vars, prc_vars,
                 obs_vars>>

\* WrapDue with "==" for ">="
WrapDueOnce(mx, bw) == Truthy(mx) /\ bw = mx

\* WrapDue with ">" for ">="
WrapDueLate(mx, bw) == Truthy(mx) /\ bw > mx

\* line 115: max_bytes and bytes_written >= max_bytes
WrapDue(mx, bw) == Truthy(mx) /\ bw >= mx

\* lines 115-116
IoSeek ==
  /\ io_pc = "seek"
  /\ tf_pos' = IF WrapDue(max_bytes, bytes_written) THEN 0 ELSE tf_pos
  /\ io_pc' = "write"
  /\ UNCHANGED <<write_mb_per_second, max_file_size_mb, write_bytes,
                 max_bytes, bytes_written, tf_open, tf_size, env_vars,
                 cmd_vars, sup_vars, wrk_vars, prc_vars, obs_vars>>

\* the file system holds a scratch file of this size
Fits(size) == size <= DiskMB * MiB

\* lines 118-119: a write of write_bytes at the cursor, which the file
\* system has room for
IoWrite ==
  /\ io_pc = "write"
  /\ bytes_written < MaxTicks * write_bytes
  /\ Fits(Max2(tf_size, tf_pos + write_bytes))
  /\ tf_pos' = tf_pos + write_bytes
  /\ tf_size' = Max2(tf_size, tf_pos')
  /\ bytes_written' = bytes_written + write_bytes
  /\ io_pc' = "tick"
  /\ UNCHANGED <<write_mb_per_second, max_file_size_mb, write_bytes,
                 max_bytes, tf_open, env_vars, cmd_vars, sup_vars, wrk_vars,
                 prc_vars, obs_vars>>

\* line 118 raising OSError (no space left, an I/O error) after n of the
\* write_mb_per_second megabytes were written
IoWriteFail ==
  /\ io_pc = "write"
  /\ \E n \in 0..(write_mb_per_second - 1) :
       /\ Fits(Max2(tf_size, tf_pos + n * MiB))
       /\ tf_pos' = tf_pos + n * MiB
       /\ tf_size' = Max2(tf_size, tf_pos')
  /\ Raise("OSError")
  /\ UNCHANGED <<write_mb_per_second, max_file_size_mb, write_bytes,
                 max_bytes, bytes_written, interrupted, env_vars, cmd_vars,
                 sup_vars, wrk_vars, obs_vars>>

\* the writer is killed from outside (SIGKILL, the OOM killer): it ends where
\* it stands, no finally runs and the scratch file stays as it is
KillWriter ==
  /\ io_pc \notin {"none", "exit"}
  /\ io_pc' = "exit"
  /\ exitcode' = [exitcode EXCEPT !["io"] = 0 - 9]
  /\ UNCHANGED <<write_mb_per_second, max_file_size_mb, write_bytes,
                 max_bytes, bytes_written, tf_open, tf_pos, tf_size,
                 interrupted, exc, env_vars, cmd_vars, sup_vars, wrk_vars,
                 obs_vars>>

\* line 120
IoTick ==
  /\ io_pc = "tick"
  /\ io_pc' = "seek"
  /\ UNCHANGED <<write_mb_per_second, max_file_size_mb, write_bytes,
                 max_bytes, bytes_written, tf_open, tf_pos, tf_size, env_vars,
                 cmd_vars, sup_vars, wrk_vars, prc_vars, obs_vars>>

(***************************************************************************)
(* SIGINT                                                                  *)
(***************************************************************************)
\* the status of a process whose SIGINT has Python's default handler and
\* whose KeyboardInterrupt nothing catches: killed by signal 2
KilledBySigint == 130

\* line 140: the handler is sys.exit(1)
HandlerExit == 1

\* what SIGINT raises in a child process: a child started by fork has the
\* handler line 140 installed, a spawned one has Python's default handler
ChildInterrupt == IF start_method = "fork" THEN "SystemExit" ELSE "KeyboardInterrupt"

\* SIGINT to the process running _cmd_line. Before line 140 it raises
\* KeyboardInterrupt. After it the handler raises SystemExit(1): the
\* interpreter still joins the children already started before it ends with
\* status 1. While it is joining them after _cmd_line has returned, the
\* SystemExit is raised inside the exit function and dropped: the join is
\* abandoned and the status is the 0 of a run that returned.
SigintCmd ==
  /\ ~interrupted["cmd"]
  /\ cmd_pc # "exit"
  /\ interrupted' = [interrupted EXCEPT !["cmd"] = TRUE]
  /\ IF cmd_pc \in {"parse", "signal"}
       THEN /\ cmd_pc' = "exit"
            /\ exc' = [exc EXCEPT !["cmd"] = "KeyboardInterrupt"]
            /\ exitcode' = [exitcode EXCEPT !["cmd"] = KilledBySigint]
       ELSE IF cmd_pc = "join"
         THEN /\ cmd_pc' = "exit"
              /\ exc' = [exc EXCEPT !["cmd"] = "SystemExit"]
              /\ exitcode' = [exitcode EXCEPT !["cmd"] = 0]
         ELSE /\ cmd_pc' = "exiting"
              /\ exc' = [exc EXCEPT !["cmd"] = "SystemExit"]
              /\ UNCHANGED exitcode
  /\ UNCHANGED <<cores_to_stress, memory_to_allocate, io_to_stress,
                 max_file_size, memory_per_core, env_vars, sup_vars, wrk_vars,
                 io_vars, obs_vars>>

\* the exit of a launcher interrupted inside _cmd_line
CmdExit ==
  /\ cmd_pc = "exiting"
  /\ Ended(sup_pc) /\ Ended(io_pc)
  /\ cmd_pc' = "exit"
  /\ exitcode' = [exitcode EXCEPT !["cmd"] = HandlerExit]
  /\ UNCHANGED <<cores_to_stress, memory_to_allocate, io_to_stress,
                 max_file_size, memory_per_core, interrupted, exc, env_vars,
                 sup_vars, wrk_vars, io_vars, obs_vars>>

\* SIGINT to the supervisor: it leaves its loop and waits for its workers
SigintSup ==
  /\ ~interrupted["sup"]
  /\ sup_pc \in {"spawn", "pause", "poll", "check", "sleep"}
  /\ interrupted' = [interrupted EXCEPT !["sup"] = TRUE]
  /\ exc' = [exc EXCEPT !["sup"] = ChildInterrupt]
  /\ sup_pc' = "join"
  /\ UNCHANGED <<num_processes, ram_per_core_mb, i, children, nextpid,
                 exitcode, env_vars, cmd_vars, wrk_vars, io_vars, obs_vars>>

\* SIGINT to the writer
SigintIo ==
  /\ ~interrupted["io"]
  /\ io_pc \notin {"none", "exit"}
  /\ interrupted' = [interrupted EXCEPT !["io"] = TRUE]
  /\ Raise(ChildInterrupt)
  /\ UNCHANGED <<write_mb_per_second, max_file_size_mb, write_bytes,
                 max_bytes, bytes_written, tf_pos, tf_size, env_vars,
                 cmd_vars, sup_vars, wrk_vars, obs_vars>>

(***************************************************************************)
(* The specifications.                                                     *)
(***************************************************************************)
\* the entry point with the CPU/RAM family it starts
Next ==
  \/ CmdParse \/ CmdSignal \/ CmdDefaults \/ CmdCpu \/ CmdIo \/ CmdJoin
  \/ SigintCmd \/ CmdExit
  \/ SupSpawn \/ SupPause \/ SupPoll \/ SupCheck \/ SupSleep \/ SupJoin
  \/ SigintSup
  \/ KillWorker

Spec == Init /\ [][Next]_vars

\* the entry point with the disk writer it starts. The supervisor it also
\* starts shares no state with the writer and never ends by itself: its
\* steps are left out, and so is the launcher's wait for it
NextIO ==
  \/ CmdParse \/ CmdSignal \/ CmdDefaults \/ CmdCpu \/ CmdIo
  \/ SigintCmd
  \/ IoOpen \/ IoPrint \/ IoSetup \/ IoSeek \/ IoWrite \/ IoWriteFail \/ IoTick
  \/ SigintIo

SpecIO == InitIO /\ [][NextIO]_vars

\* the entry point with both families, and the deaths of their processes
NextAll ==
  \/ CmdParse \/ CmdSignal \/ CmdDefaults \/ CmdCpu \/ CmdIo
  \/ SupSpawn \/ SupPause \/ SupPoll \/ SupCheck \/ SupSleep
  \/ KillWorker
  \/ IoOpen \/ IoPrint \/ IoSetup \/ IoSeek \/ IoWrite \/ IoWriteFail \/ IoTick
  \/ KillWriter

SpecAll == InitAll /\ [][NextAll]_vars

\* the entry point, the supervisor and the loops of its workers
NextSpin ==
  \/ CmdParse \/ CmdSignal \/ CmdDefaults \/ CmdCpu
  \/ SupSpawn \/ SupPause \/ SupPoll \/ SupCheck \/ SupSleep
  \/ KillWorker
  \/ WorkerSkip \/ WorkerAppend \/ WorkerAppendFail
  \/ WorkerTouchFail

SpecSpin == InitSpin /\ [][NextSpin]_vars

SpecPair == InitPair /\ [][NextSpin]_vars

(***************************************************************************)
(* The supervisor's properties, under Spec.                                *)
(***************************************************************************)
\* the poll of lines 85-89 has been decided: the supervisor goes to sleep
CheckStep == sup_pc = "check" /\ sup_pc' = "sleep"

\* C1: single-failure recovery. A poll that finds exactly one of the
\* num_processes workers missing, no other worker dying before it has
\* acted, ends with num_processes live workers.
C1_SingleFailureRecovery ==
  [][(CheckStep /\ children = num_processes - 1 /\ Cardinality(live) = children)
       => Cardinality(live') = num_processes]_vars

\* C1's case: one worker died in steady state and the next poll replaced it
C1_Witness ==
  /\ sup_pc = "sleep"
  /\ deaths = 1 /\ dead_k = 1 /\ polls = 1
  /\ children = num_processes - 1
  /\ nextpid = num_processes + 2
  /\ Cardinality(live) = num_processes

\* C2: the supervisor never has more than num_processes live workers, in
\* startup and in steady state, and a poll that saw num_processes children
\* starts no worker.
C2_AtMostCoreCount ==
  /\ [](sup_pc # "none" => Cardinality(live) <= num_processes)
  /\ [][(CheckStep /\ children >= num_processes)
          => (live' = live /\ nextpid' = nextpid)]_vars

\* C2's case: after a respawn, a later poll saw every worker and slept
C2_Witness ==
  /\ sup_pc = "sleep"
  /\ nextpid > num_processes + 1
  /\ children = num_processes
  /\ Cardinality(live) = num_processes

\* C3: single replacement per poll. In steady state workers are started by
\* the decision of a poll only; a poll that saw fewer than num_processes
\* children starts exactly one worker, with the target ram_per_core_mb every
\* worker has, whatever the deficit, and any other poll starts none.
C3_SingleReplacementPerPoll ==
  /\ [][(Steady /\ (nextpid' # nextpid \/ ~(live' \subseteq live)))
          => CheckStep]_vars
  /\ [][CheckStep =>
          IF children < num_processes
            THEN /\ nextpid' = nextpid + 1
                 /\ live' = live \cup {nextpid}
                 /\ nextpid \notin live
                 /\ \A p \in live' : ram'[p] = ram_per_core_mb
            ELSE nextpid' = nextpid /\ live' = live]_vars

\* C3's case: a poll saw a deficit of two or more and started one worker
C3_Witness ==
  /\ sup_pc = "sleep"
  /\ children + 2 <= num_processes
  /\ Cardinality(live) = children + 1
  /\ nextpid \in {p + 1 : p \in live}

\* C4: multi-failure recovery. With dead_k workers missing after the latest
\* death, once dead_k polls have begun and finished since then, the
\* supervisor has num_processes live workers, and keeps them until the next
\* death.
C4_MultiFailureRecovery ==
  (Steady /\ polls >= dead_k) => Cardinality(live) = num_processes

\* C4's case: two workers were missing and two polls later none is
C4_Witness ==
  /\ Steady
  /\ dead_k = 2 /\ polls = 2
  /\ Cardinality(live) = num_processes

\* C9: started with cores=0 and no write flag, the tool starts no supervisor,
\* worker or writer.
C9_ZeroCoresStartsNothing ==
  (argv.cores = 0 /\ argv.write = None)
    => (sup_pc = "none" /\ live = {} /\ io_pc = "none")

\* C10: a process that received SIGINT with the handler of line 140
\* installed, and has ended, ended with status 0.
C10_InterruptIsCleanExit ==
  \A p \in Procs :
    (interrupted[p] /\ exc[p] = "SystemExit" /\ exitcode[p] # None)
      => exitcode[p] = 0

\* C11: once the launcher has ended, interrupted or not, nothing it started
\* is left: the supervisor and the writer have ended, no worker is alive and
\* the scratch file is closed.
C11_NoOrphans ==
  cmd_pc = "exit"
    => (Ended(sup_pc) /\ live = {} /\ Ended(io_pc) /\ ~tf_open)

\* the supervisor is in its startup loop (lines 76-80)
Startup == sup_pc \in {"spawn", "pause"}

\* C19: sequential startup. In startup a worker is started only by an
\* iteration of the loop, one at a time, and each start is followed by the
\* pause; no poll is made before the loop has ended; the loop ends after
\* exactly num_processes starts and pauses, whatever died meanwhile.
C19_SequentialStartup ==
  /\ [](Startup => /\ i < num_processes
                   /\ nextpid - 1 = (IF sup_pc = "pause" THEN i + 1 ELSE i))
  /\ [][(Startup /\ (nextpid' # nextpid \/ ~(live' \subseteq live)))
          => /\ sup_pc = "spawn" /\ sup_pc' = "pause"
             /\ nextpid' = nextpid + 1
             /\ live' = live \cup {nextpid}]_vars
  /\ [][(sup_pc = "spawn" /\ sup_pc' # "spawn")
          => sup_pc' \in {"pause", "join"}]_vars
  /\ [][(sup_pc # "poll" /\ sup_pc' = "poll")
          => \/ sup_pc = "sleep"
             \/ /\ sup_pc = "pause"
                /\ i' = num_processes
                /\ nextpid' = num_processes + 1]_vars
  /\ [][Startup => children' = children]_vars

\* C19's case: a worker died during startup, and the startup loop has just
\* ended with num_processes starts and the dead worker not replaced
C19_Witness ==
  /\ sup_pc = "poll"
  /\ children = 0 /\ polls = 0
  /\ i = num_processes
  /\ nextpid = num_processes + 1
  /\ num_processes >= 2
  /\ deaths >= 1
  /\ Cardinality(live) < num_processes

(***************************************************************************)
(* The disk writer's properties, under SpecIO.                             *)
(***************************************************************************)
\* the writer is in its loop (lines 114-120)
InLoop == io_pc \in {"seek", "write", "tick"}

\* C5: with a maximum configured, the scratch file never grows beyond it,
\* the bytes written do not exceed it before the first wrap, and a wrap has
\* put the cursor at offset 0.
C5_BoundedScratchFile ==
  (InLoop /\ Truthy(max_bytes)) =>
    /\ tf_size <= max_bytes
    /\ (bytes_written - write_bytes < max_bytes /\ io_pc \in {"tick", "seek"})
         => bytes_written <= max_bytes
    /\ (io_pc = "write" /\ bytes_written >= max_bytes) => tf_pos = 0

\* C6 as claimed: once the size has reached the maximum it returns to 0, so
\* the file is empty when a wrap has put the cursor back at offset 0.
C6_SizeReturnsToZero ==
  (io_pc = "write" /\ Truthy(max_bytes) /\ bytes_written >= max_bytes)
    => tf_size = 0

\* C6, amended: each tick writes write_mb_per_second megabytes; once
\* bytes_written has reached max_bytes every write starts at offset 0 and
\* the file size never changes again; it is max_bytes when write_bytes
\* divides max_bytes, and never 0.
C6_SizeStaysAtMax ==
  /\ [][(io_pc = "write" /\ io_pc' = "tick")
          => bytes_written' = bytes_written + write_mb_per_second * MiB]_vars
  /\ [][(InLoop /\ Truthy(max_bytes) /\ bytes_written >= max_bytes)
          => tf_size' = tf_size]_vars
  /\ []((InLoop /\ Truthy(max_bytes) /\ bytes_written >= max_bytes)
          => /\ tf_size > 0
             /\ io_pc = "write" => tf_pos = 0
             /\ max_bytes % write_bytes = 0 => tf_size = max_bytes)

\* C6's case: two ticks after the first wrap the size is still the maximum
C6_Witness ==
  /\ io_pc = "tick"
  /\ Truthy(max_bytes)
  /\ max_bytes > write_bytes
  /\ bytes_written >= max_bytes + 2 * write_bytes
  /\ tf_size = max_bytes

\* C7: with a write rate and no maximum given, the writer is in its loop
\* with the cursor never repositioned (size and cursor are the bytes
\* written), and only a failed write ends it.
C7_UnboundedMode ==
  (Truthy(argv.write) /\ argv.max = None /\ ~interrupted["io"]) =>
    /\ InLoop => (tf_size = bytes_written /\ tf_pos = bytes_written)
    /\ io_pc = "exit" => exc["io"] = "OSError"

C20_WrapIsPermanent ==
  /\ [][bytes_written' >= bytes_written]_vars
  /\ [][(Truthy(max_bytes) /\ bytes_written >= max_bytes)
          => (max_bytes' = max_bytes /\ bytes_written' >= max_bytes')]_vars
  /\ []((io_pc = "write" /\ Truthy(max_bytes) /\ bytes_written >= max_bytes)
          => tf_pos = 0)
  /\ []((io_pc = "tick" /\ Truthy(max_bytes)
           /\ bytes_written - write_bytes >= max_bytes)
          => tf_pos = write_bytes)

\* C20's case: the third write after bytes_written reached max_bytes is
\* about to start, at offset 0
C20_Witness ==
  /\ io_pc = "write"
  /\ Truthy(max_bytes)
  /\ bytes_written >= max_bytes + 2 * write_bytes
  /\ tf_pos = 0
  /\ tf_size > write_bytes


(***************************************************************************)
(* The two families side by side, under SpecAll.                           *)
(***************************************************************************)
\* the writer ends in this step: an exception left stress_io, or a kill
WriterDies == io_pc # "exit" /\ io_pc' = "exit"

\* C12: the step in which the writer dies changes nothing of the supervisor
\* and of the workers; what a poll observes is the number of live workers
\* alone, and the polling loop starts a worker only after a poll that saw
\* fewer than num_processes of them; a step in which a worker dies or starts
\* changes nothing of the writer, its cursor and its byte counter included
C12_FamiliesIsolated ==
  /\ [][WriterDies
          => /\ sup_pc' = sup_pc /\ live' = live /\ children' = children
             /\ nextpid' = nextpid /\ alloc' = alloc /\ ram' = ram]_vars
  /\ [][(sup_pc = "poll" /\ sup_pc' = "check")
          => children' = Cardinality(live)]_vars
  /\ [][(Steady /\ nextpid' # nextpid)
          => /\ CheckStep /\ children < num_processes
             /\ nextpid' = nextpid + 1]_vars
  /\ [][live' # live
          => /\ tf_pos' = tf_pos /\ bytes_written' = bytes_written
             /\ io_pc' = io_pc /\ tf_size' = tf_size /\ tf_open' = tf_open]_vars
  /\ [](sup_pc # "exit")

\* the writer has died after writing, and the supervisor polls on with all
\* its workers, one of them a replacement
C12_Witness ==
  /\ io_pc = "exit" /\ exitcode["io"] # None
  /\ bytes_written > 0
  /\ Steady /\ sup_pc = "sleep"
  /\ children = num_processes
  /\ Cardinality(live) = num_processes
  /\ deaths >= 1 /\ nextpid > num_processes + 1

(***************************************************************************)
(* _spin: the allocation state of a worker                                 *)
(***************************************************************************)
\* the workers a step leaves running
Survivors == live \cap live'

\* C13 (finite-run form): a worker that started with a positive step and
\* holds less filler than its target can still append, so that it is not
\* stuck below the target appending nothing
C13_NeverStuckBelowTarget ==
  \A w \in live :
    (StepMB(ram[w]) > 0 /\ Filler(alloc[w].dummy) < ram[w] * MiB)
      => (alloc[w].ram_per_step_mb * MiB) \div FloatSize > 0

C15_BufferOnlyGrows ==
  [][\A w \in Survivors :
       LET old == alloc[w].dummy
           new == alloc'[w].dummy
       IN /\ new >= old
          /\ alloc'[w].ram_per_step_mb # alloc[w].ram_per_step_mb => new = old
          /\ new # old
               => new = old + (alloc[w].ram_per_step_mb * MiB) \div FloatSize]_vars

\* a worker that appended at 3 MB, failed, and appended again at 2 MB
C15_Witness ==
  \E w \in live :
    /\ alloc[w].ram_per_step_mb < 3
    /\ alloc[w].dummy
         = 1 + (3 * MiB) \div FloatSize + (2 * MiB) \div FloatSize

\* C16: a step that ends a worker or starts one leaves the step size and
\* the buffer length of every other worker as they were, and a worker that
\* starts has the initial state of its own target, a list of one element
C16_WorkersIsolated ==
  [][live' # live
       => /\ \A j \in Survivors : alloc'[j] = alloc[j]
          /\ \A p \in live' \ live :
               alloc'[p] = [ram_per_step_mb |-> ram'[p] \div 8, dummy |-> 1]]_vars

\* a worker of the startup holds filler and has shrunk its step, next to a
\* replacement that has just started
C16_Witness ==
  \E j, p \in live :
    /\ j <= num_processes /\ p > num_processes
    /\ alloc[j].dummy > 1
    /\ alloc[j].ram_per_step_mb < StepMB(ram[j])
    /\ alloc[p] = [ram_per_step_mb |-> ram[p] \div 8, dummy |-> 1]
    /\ deaths >= 1

\* C17: no worker ends other than by an external kill
C17_OnlyKillEndsWorker == crashed = {}

\* C18 as stated: the filler a worker has appended never exceeds its target
\* by more than one initial step
C18_FillerWithinOneStep ==
  \A w \in live :
    Filler(alloc[w].dummy) <= ram[w] * MiB + (ram[w] \div 8) * MiB

\* C18: a worker appends only in an iteration that was told a usage strictly
\* below the target, and an append adds at most one initial step; the filler
\* after an append exceeds the target by less than one initial step when the
\* usage the iteration was told was at least the filler held before it
C18_AppendOnlyBelowTarget ==
  [][\A w \in Survivors :
       alloc'[w].dummy # alloc[w].dummy
         => /\ rss' # None /\ rss' < ram[w] * MiB
            /\ (alloc'[w].dummy - alloc[w].dummy) * FloatSize
                 <= (ram[w] \div 8) * MiB
            /\ rss' >= (alloc[w].dummy - 1) * FloatSize
                 => (alloc'[w].dummy - 1) * FloatSize
                      < ram[w] * MiB + (ram[w] \div 8) * MiB]_vars

\* a worker that has appended up to its target and, told that all of it is
\* resident, appends no more
C18_Witness ==
  \E w \in live :
    /\ alloc[w].dummy > 1
    /\ rss = Filler(alloc[w].dummy)
    /\ rss >= ram[w] * MiB
    /\ rss < ram[w] * MiB + (ram[w] \div 8) * MiB

====
